---- MODULE Spec2Model ----
(***************************************************************************)
(* The spreadsheet analysis endpoint of src/main.py: analyze_excel and the *)
(* schema inference _detect_columns it relies on.                          *)
(*                                                                         *)
(* Strings are sequences of one-character strings, so that substring       *)
(* tests, strip() and lower() are computed rather than assumed.            *)
(***************************************************************************)
EXTENDS Integers, Sequences, FiniteSets, TLC

VARIABLES
  pc,              \* position of the request inside analyze_excel
  columns,         \* df.columns: the header row of the decoded sheet
  rows,            \* the data rows of the decoded sheet (one cell per column)
  cardcode,        \* request parameter: partner-code pattern or None
  min_total,       \* request parameter: lower amount bound or None
  max_total,       \* request parameter: upper amount bound or None
  start_date,      \* request parameter: start date string or None
  end_date,        \* request parameter: end date string or None
  tmp_exists,      \* the NamedTemporaryFile(delete=False) is on disk
  colmap,          \* result of _detect_columns
  df,              \* the frame after coercion and filtering
  total_records,   \* int(len(df)) after the filters
  supplier_totals, \* list of aggregate records
  sample_records,  \* list of preview records
  fields_detected, \* list(colmap.keys())
  response         \* what the request returned: none, ok, http400, http500

vars == << pc, columns, rows, cardcode, min_total, max_total, start_date,
           end_date, tmp_exists, colmap, df, total_records, supplier_totals,
           sample_records, fields_detected, response >>

----------------------------------------------------------------------------
(* Bounds of the model *)

\* longest header row drawn for the schema-inference specification
MaxCols == 3

\* most data rows of a decoded sheet
MaxRows == 3

\* most data rows of a long sheet, more than the preview shows
MaxLongRows == 12

----------------------------------------------------------------------------
(* Python str operations *)

UpperChars ==
  <<"A","B","C","D","E","F","G","H","I","J","K","L","M",
    "N","O","P","Q","R","S","T","U","V","W","X","Y","Z">>

LowerChars ==
  <<"a","b","c","d","e","f","g","h","i","j","k","l","m",
    "n","o","p","q","r","s","t","u","v","w","x","y","z">>

\* str.lower() on one character
LowerChar(c) ==
  IF \E i \in DOMAIN UpperChars : UpperChars[i] = c
    THEN LowerChars[CHOOSE i \in DOMAIN UpperChars : UpperChars[i] = c]
    ELSE c

\* str.lower()
Lower(s) == [i \in DOMAIN s |-> LowerChar(s[i])]

\* str.strip(): drop leading and trailing whitespace
Strip(s) ==
  LET keep == {i \in DOMAIN s : s[i] # " "}
  IN  IF keep = {} THEN << >>
      ELSE LET lo == CHOOSE i \in keep : \A j \in keep : i <= j
               hi == CHOOSE i \in keep : \A j \in keep : j <= i
           IN  SubSeq(s, lo, hi)

\* Python "k in c" on strings
Contains(c, k) ==
  \E i \in 1..(Len(c) - Len(k) + 1) : SubSeq(c, i, i + Len(k) - 1) = k

\* str.startswith
StartsWith(c, p) == Len(c) >= Len(p) /\ SubSeq(c, 1, Len(p)) = p

\* the header normalisation of lines 315 and 436: str(c).strip().lower()
NormalizeHeader(c) == Lower(Strip(c))

NormalizeHeaders(cs) == [i \in DOMAIN cs |-> NormalizeHeader(cs[i])]

----------------------------------------------------------------------------
(* _detect_columns *)

Range(f) == {f[i] : i \in DOMAIN f}

\* Python None as returned by find(); like "" it is falsy at line 377
None == << >>

\* the ordered key fragments passed to find() for each semantic field
Synonyms ==
  [ cardcode |-> <<
        <<"c","a","r","d","c","o","d","e">>,
        <<"v","e","n","d","o","r">>,
        <<"b","p","c","o","d","e">>,
        <<"s","u","p","p","l","i","e","r","i","d">>,
        <<"c","u","s","t","o","m","e","r">>,
        <<"c","l","i","e","n","t","c","o","d","e">>,
        <<"d","e","b","i","t","o","r">>,
        <<"p","a","r","t","n","e","r","c","o","d","e">> >>,
    cardname |-> <<
        <<"c","a","r","d","n","a","m","e">>,
        <<"v","e","n","d","o","r","n","a","m","e">>,
        <<"b","p","n","a","m","e">>,
        <<"s","u","p","p","l","i","e","r","n","a","m","e">>,
        <<"c","u","s","t","o","m","e","r","n","a","m","e">>,
        <<"c","l","i","e","n","t","n","a","m","e">>,
        <<"d","e","b","i","t","o","r","n","a","m","e">>,
        <<"p","a","r","t","n","e","r","n","a","m","e">> >>,
    docnum |-> <<
        <<"d","o","c","n","u","m">>,
        <<"d","o","c","e","n","t","r","y">>,
        <<"i","n","v","o","i","c","e">>,
        <<"i","n","v","n","o">>,
        <<"i","n","v","n","u","m">>,
        <<"d","o","c","u","m","e","n","t","n","u","m","b","e","r">>,
        <<"p","o","_","n","o">>,
        <<"p","o"," ","n","u","m","b","e","r">>,
        <<"d","o","c"," ","n","o">>,
        <<"o","r","d","e","r">>,
        <<"s","a","l","e","s","o","r","d","e","r">>,
        <<"p","u","r","c","h","a","s","e","o","r","d","e","r">> >>,
    date |-> <<
        <<"d","o","c","d","a","t","e">>,
        <<"t","a","x","d","a","t","e">>,
        <<"p","o","s","t","i","n","g","d","a","t","e">>,
        <<"p","o","s","t","i","n","g">>,
        <<"d","u","e","d","a","t","e">>,
        <<"c","r","e","a","t","e","d","a","t","e">>,
        <<"d","a","t","e">>,
        <<"t","r","a","n","d","a","t","e">> >>,
    total |-> <<
        <<"l","i","n","e","t","o","t","a","l">>,
        <<"d","o","c","t","o","t","a","l">>,
        <<"t","o","t","a","l","a","m","o","u","n","t">>,
        <<"a","m","o","u","n","t">>,
        <<"g","r","a","n","d","t","o","t","a","l">>,
        <<"t","o","t","a","l">>,
        <<"n","e","t","v","a","l","u","e">>,
        <<"g","r","o","s","s","a","m","o","u","n","t">>,
        <<"d","e","b","i","t">>,
        <<"c","r","e","d","i","t">>,
        <<"b","a","l","a","n","c","e">>,
        <<"p","r","i","c","e","a","f","t","e","r","v","a","t">>,
        <<"n","e","t","a","m","t">> >>,
    qty |-> <<
        <<"q","u","a","n","t","i","t","y">>,
        <<"q","t","y">>,
        <<"o","p","e","n","q","t","y">>,
        <<"b","a","s","e","q","t","y">>,
        <<"s","h","i","p","q","t","y">>,
        <<"d","e","l","q","t","y">>,
        <<"i","n","v","o","i","c","e","d","q","t","y">>,
        <<"o","r","d","e","r","e","d","q","t","y">> >>,
    item |-> <<
        <<"i","t","e","m","c","o","d","e">>,
        <<"i","t","e","m">>,
        <<"d","s","c","r","i","p","t","i","o","n">>,
        <<"d","e","s","c","r","i","p","t","i","o","n">>,
        <<"m","a","t","e","r","i","a","l">>,
        <<"s","k","u">>,
        <<"p","r","o","d","u","c","t">>,
        <<"p","a","r","t","n","u","m","b","e","r">>,
        <<"m","a","t","e","r","i","a","l","c","o","d","e">> >>,
    tax |-> <<
        <<"t","a","x">>,
        <<"v","a","t">>,
        <<"g","s","t">>,
        <<"t","a","x","a","m","t">>,
        <<"t","a","x","a","m","o","u","n","t">> >>,
    discount |-> <<
        <<"d","i","s","c">>,
        <<"d","i","s","c","o","u","n","t">>,
        <<"d","i","s","c","p","e","r","c">>,
        <<"d","i","s","c","a","m","t">>,
        <<"d","i","s","c","o","u","n","t","a","m","o","u","n","t">> >>,
    currency |-> <<
        <<"c","u","r","r","e","n","c","y">>,
        <<"c","u","r","r">>,
        <<"c","u","r","r","c","o","d","e">> >>,
    warehouse |-> <<
        <<"w","h","s","c","o","d","e">>,
        <<"w","a","r","e","h","o","u","s","e">>,
        <<"l","o","c","a","t","i","o","n">> >>,
    costcenter |-> <<
        <<"c","o","s","t","c","e","n","t","e","r">>,
        <<"p","r","o","f","i","t","c","e","n","t","e","r">>,
        <<"c","o","s","t","c","t","r">>,
        <<"p","c">>,
        <<"d","i","v","i","s","i","o","n">> >>,
    cardtype |-> <<
        <<"c","a","r","d","t","y","p","e">>,
        <<"b","p","t","y","p","e">>,
        <<"b","u","s","i","n","e","s","s","p","a","r","t","n","e","r">>,
        <<"b","p","g","r","o","u","p">> >> ]

\* the order in which _detect_columns assigns the fields
FieldOrder ==
  <<"cardcode", "cardname", "docnum", "date", "total", "qty", "item", "tax",
    "discount", "currency", "warehouse", "costcenter", "cardtype",
    "userfields">>

SynonymFields == DOMAIN Synonyms

\* inner loop of find(): first column containing the fragment k
RECURSIVE scan_cols(_, _, _)
scan_cols(k, cols, j) ==
  IF j > Len(cols) THEN None
  ELSE IF Contains(cols[j], k) THEN cols[j]
  ELSE scan_cols(k, cols, j + 1)

\* outer loop of find(): fragments in priority order
RECURSIVE find_from(_, _, _)
find_from(keys, cols, i) ==
  IF i > Len(keys) THEN None
  ELSE LET c == scan_cols(keys[i], cols, 1)
       IN  IF c # None THEN c ELSE find_from(keys, cols, i + 1)

\* find() with the loops exchanged: columns outside, fragments inside, so that
\* column order beats fragment priority
RECURSIVE find_by_column(_, _)
find_by_column(keys, cols) ==
  IF cols = << >> THEN None
  ELSE IF \E i \in DOMAIN keys : Contains(cols[1], keys[i]) THEN cols[1]
  ELSE find_by_column(keys, Tail(cols))

\* find() walking the fragments from the last to the first
RECURSIVE find_reversed(_, _)
find_reversed(keys, cols) ==
  IF keys = << >> THEN None
  ELSE LET c == scan_cols(keys[Len(keys)], cols, 1)
       IN  IF c # None THEN c ELSE find_reversed(SubSeq(keys, 1, Len(keys) - 1), cols)

find(keys, cols) == find_from(keys, cols, 1)

\* the "u_" prefix of user-defined fields
UserPrefix == <<"u","_">>

\* the loop of lines 371-374: first column starting with "u_"
RECURSIVE find_userfield(_, _)
find_userfield(cols, j) ==
  IF j > Len(cols) THEN None
  ELSE IF StartsWith(cols[j], UserPrefix) THEN cols[j]
  ELSE find_userfield(cols, j + 1)

\* the value assigned to mapping[f] before the None filter
MappingValue(f, cols) ==
  IF f = "userfields" THEN find_userfield(cols, 1) ELSE find(Synonyms[f], cols)

\* lines 316-374: every field with the header find() gave it, or None
mapping(cols) == [f \in Range(FieldOrder) |-> MappingValue(f, cols)]

\* line 377: {k: v for k, v in mapping.items() if v}
DropFalsy(m) == [f \in {g \in DOMAIN m : m[g] # << >>} |-> m[f]]

_detect_columns(dfcolumns) == DropFalsy(mapping(NormalizeHeaders(dfcolumns)))

----------------------------------------------------------------------------
(* Header rows drawn for the schema-inference specification *)

HeaderPool ==
  { <<"C","a","r","d","C","o","d","e">>,
    <<"O","l","d","C","a","r","d","C","o","d","e">>,
    <<" ","V","e","n","d","o","r"," ">>,
    <<"V","e","n","d","o","r","N","a","m","e">>,
    <<"C","a","r","d","N","a","m","e">>,
    <<"D","o","c","T","o","t","a","l">>,
    <<"A","m","o","u","n","t">>,
    <<"D","o","c","D","a","t","e">>,
    <<"T","a","x","D","a","t","e">>,
    <<"T","a","x">>,
    <<"U","_","R","e","g","i","o","n">>,
    <<"m","e","n","u","_","i","t","e","m">>,
    <<"N","o","t","e","s">> }

HeaderRows == UNION {[1..n -> HeaderPool] : n \in 0..MaxCols}

----------------------------------------------------------------------------
(* Cell values of the decoded sheet *)

\* a cell is missing (NaN / NaT), a string, a number or a date (a day number)
NaN == [k |-> "nan", s |-> << >>, n |-> 0]

Str(s) == [k |-> "str", s |-> s, n |-> 0]

Num(n) == [k |-> "num", s |-> << >>, n |-> n]

Date(d) == [k |-> "date", s |-> << >>, n |-> d]

Digits == <<"0","1","2","3","4","5","6","7","8","9">>

IsDigit(c) == \E i \in DOMAIN Digits : Digits[i] = c

DigitValue(c) == (CHOOSE i \in DOMAIN Digits : Digits[i] = c) - 1

\* int(s) for a string of decimal digits
RECURSIVE ParseInt(_)
ParseInt(s) ==
  IF s = << >> THEN 0
  ELSE 10 * ParseInt(SubSeq(s, 1, Len(s) - 1)) + DigitValue(s[Len(s)])

\* str(n) for a non-negative integer
RECURSIVE IntToStr(_)
IntToStr(n) ==
  IF n < 10 THEN << Digits[n + 1] >>
  ELSE Append(IntToStr(n \div 10), Digits[(n % 10) + 1])

\* pd.to_numeric(..., errors="coerce") on one cell: numbers stay, numeric text is
\* parsed, everything else becomes NaN
to_numeric(c) ==
  CASE c.k = "num" -> c
    [] c.k = "nan" -> NaN
    [] c.k = "str" ->
         IF c.s # << >> /\ \A i \in DOMAIN c.s : IsDigit(c.s[i])
           THEN Num(ParseInt(c.s))
           ELSE NaN

\* pd.to_datetime(..., errors="coerce") on one cell: dates stay, missing cells and
\* text without any digit become NaT
to_datetime(c) ==
  CASE c.k = "date" -> c
    [] c.k = "nan" -> NaN
    [] c.k = "str" /\ \A i \in DOMAIN c.s : ~IsDigit(c.s[i]) -> NaN

\* Series.astype(str) on one cell of an object column: str(value), and the
\* missing value becomes the text "nan"
astype_str(c) ==
  CASE c.k = "str" -> c.s
    [] c.k = "nan" -> <<"n","a","n">>
    [] c.k = "num" -> IntToStr(c.n)

\* re.search(pat, s, re.IGNORECASE) for patterns made of literal characters and
\* the wildcard "."; Series.str.contains uses regex=True by default
RegexSearch(pat, s) ==
  \E i \in 1..(Len(s) - Len(pat) + 1) :
    \A j \in DOMAIN pat :
      pat[j] = "." \/ LowerChar(pat[j]) = LowerChar(s[i + j - 1])

----------------------------------------------------------------------------
(* Frames: a header row and a sequence of rows, one cell per column *)

Max(S) == CHOOSE x \in S : \A y \in S : y <= x

\* df[name]: the position of the column called name
ColIndex(cols, name) == CHOOSE i \in DOMAIN cols : cols[i] = name

\* the key of one row: its cells in the grouping columns gk
KeyOf(cols, gk, r) == [i \in DOMAIN gk |-> r[ColIndex(cols, gk[i])]]

\* GroupBy.sum() over the rows with key k: missing amounts are skipped
RECURSIVE SumGroup(_, _, _, _, _)
SumGroup(cols, gk, ti, rs, k) ==
  IF rs = << >> THEN 0
  ELSE (IF KeyOf(cols, gk, rs[1]) = k /\ rs[1][ti].k = "num" THEN rs[1][ti].n ELSE 0)
       + SumGroup(cols, gk, ti, Tail(rs), k)

\* a request parameter that was not given (Optional[float] = None); given bounds
\* are >= 0 by Query(ge=0)
NoneNum == -1

\* a local variable of analyze_excel that is not assigned yet
Unbound == -1

----------------------------------------------------------------------------
(* ExcelQuery: the validators of the query model, lines 167-191 *)

\* validate_dates raises ValueError unless the text is None, "" or %Y-%m-%d
validate_dates_raises(v) == v.kind = "bad"

\* check_ranges raises ValueError when both bounds are given and max < min
check_ranges_raises(v, mintotal) == v # NoneNum /\ mintotal # NoneNum /\ v < mintotal

----------------------------------------------------------------------------
(* analyze_excel: coercion and filters, lines 439-463 *)

\* lines 440-441
CoerceTotal(cols, cm, rs) ==
  IF "total" \in DOMAIN cm
    THEN [r \in DOMAIN rs |->
            [rs[r] EXCEPT ![ColIndex(cols, cm["total"])] = to_numeric(@)]]
    ELSE rs

\* lines 444-445
CoerceDate(cols, cm, rs) ==
  IF "date" \in DOMAIN cm
    THEN [r \in DOMAIN rs |->
            [rs[r] EXCEPT ![ColIndex(cols, cm["date"])] = to_datetime(@)]]
    ELSE rs

\* lines 439-445
Coerce(cols, cm, rs) == CoerceDate(cols, cm, CoerceTotal(cols, cm, rs))

\* lines 448-449
FilterCardcode(cols, cm, rs, cc) ==
  IF cc # None /\ "cardcode" \in DOMAIN cm
    THEN LET i == ColIndex(cols, cm["cardcode"])
         IN  SelectSeq(rs, LAMBDA r : RegexSearch(cc, astype_str(r[i])))
    ELSE rs

\* the min_total filter applied to the sum of the row's partner instead of the
\* row's own amount
FilterMinOnGroupSum(cols, cm, rs, mn) ==
  IF mn # NoneNum /\ "total" \in DOMAIN cm
    THEN LET i  == ColIndex(cols, cm["total"])
             gk == IF "cardcode" \in DOMAIN cm THEN << cm["cardcode"] >> ELSE << >>
         IN  SelectSeq(rs, LAMBDA r : SumGroup(cols, gk, i, rs, KeyOf(cols, gk, r)) >= mn)
    ELSE rs

\* lines 451-452; a comparison with NaN is False
FilterMin(cols, cm, rs, mn) ==
  IF mn # NoneNum /\ "total" \in DOMAIN cm
    THEN LET i == ColIndex(cols, cm["total"])
         IN  SelectSeq(rs, LAMBDA r : r[i].k = "num" /\ r[i].n >= mn)
    ELSE rs

\* lines 453-454
FilterMax(cols, cm, rs, mx) ==
  IF mx # NoneNum /\ "total" \in DOMAIN cm
    THEN LET i == ColIndex(cols, cm["total"])
         IN  SelectSeq(rs, LAMBDA r : r[i].k = "num" /\ r[i].n <= mx)
    ELSE rs

\* a date parameter: not given (None or ""), text that strptime accepts as
\* %Y-%m-%d (denoting a day number), or text it rejects
NoDate == [kind |-> "none", day |-> 0]

ValidDate(d) == [kind |-> "valid", day |-> d]

BadDate == [kind |-> "bad", day |-> 0]

\* _parse_datesafe raises ValueError on text that is not %Y-%m-%d
ParseRaises(s) == s.kind = "bad"

\* _parse_datesafe: None for None or "", else the parsed day
_parse_datesafe(s) == IF s.kind = "valid" THEN s.day ELSE NoneNum

\* lines 458-459; a comparison with NaT is False
FilterStart(cols, cm, rs, sd) ==
  IF sd # NoneNum /\ "date" \in DOMAIN cm
    THEN LET i == ColIndex(cols, cm["date"])
         IN  SelectSeq(rs, LAMBDA r : r[i].k = "date" /\ r[i].n >= sd)
    ELSE rs

\* lines 460-461
FilterEnd(cols, cm, rs, ed) ==
  IF ed # NoneNum /\ "date" \in DOMAIN cm
    THEN LET i == ColIndex(cols, cm["date"])
         IN  SelectSeq(rs, LAMBDA r : r[i].k = "date" /\ r[i].n <= ed)
    ELSE rs

\* the three filters applied before the date parameters are parsed
FilterBeforeDates(cols, cm, rs, cc, mn, mx) ==
  FilterMax(cols, cm, FilterMin(cols, cm, FilterCardcode(cols, cm, rs, cc), mn), mx)

\* the filters with max_total applied to the unfiltered frame: the cardcode and
\* min_total filters are lost when max_total is given
ApplyFiltersMaxOnWholeFrame(cols, cm, rs, cc, mn, mx, sd, ed) ==
  FilterEnd(cols, cm,
    FilterStart(cols, cm,
      IF mx # NoneNum /\ "total" \in DOMAIN cm
        THEN FilterMax(cols, cm, rs, mx)
        ELSE FilterBeforeDates(cols, cm, rs, cc, mn, mx), sd), ed)

\* all five filters in the order of lines 448-461
ApplyFilters(cols, cm, rs, cc, mn, mx, sd, ed) ==
  FilterEnd(cols, cm,
    FilterStart(cols, cm, FilterBeforeDates(cols, cm, rs, cc, mn, mx), sd), ed)

----------------------------------------------------------------------------
(* analyze_excel: supplier totals, lines 465-484 *)

\* characters in code-point order, for the comparison of strings
CharOrder ==
  <<" ",".","/","0","1","2","3","4","5","6","7","8","9",
    "A","B","C","D","E","F","G","H","I","J","K","L","M",
    "N","O","P","Q","R","S","T","U","V","W","X","Y","Z",
    "_","a","b","c","d","e","f","g","h","i","j","k","l",
    "m","n","o","p","q","r","s","t","u","v","w","x","y",
    "z">>

Ord(c) == CHOOSE i \in DOMAIN CharOrder : CharOrder[i] = c

\* Python s < t on strings
RECURSIVE StrLess(_, _)
StrLess(s, t) ==
  IF t = << >> THEN FALSE
  ELSE IF s = << >> THEN TRUE
  ELSE IF s[1] # t[1] THEN Ord(s[1]) < Ord(t[1])
  ELSE StrLess(Tail(s), Tail(t))

\* the order groupby(sort=True) gives to the values of a key column: text in
\* string order, the missing value last
CellLess(a, b) ==
  /\ a.k = "str"
  /\ \/ b.k = "nan"
     \/ b.k = "str" /\ StrLess(a.s, b.s)

\* lexicographic order on group keys
RECURSIVE KeyLess(_, _)
KeyLess(a, b) ==
  IF a = << >> THEN FALSE
  ELSE IF a[1] # b[1] THEN CellLess(a[1], b[1])
  ELSE KeyLess(Tail(a), Tail(b))

\* the distinct keys of S in ascending order
RECURSIVE SortKeys(_)
SortKeys(S) ==
  IF S = {} THEN << >>
  ELSE LET m == CHOOSE x \in S : \A y \in S \ {x} : KeyLess(x, y)
       IN  << m >> \o SortKeys(S \ {m})

\* lines 468-470
group_keys(cm) ==
  << cm["cardcode"] >> \o
  (IF "cardname" \in DOMAIN cm THEN << cm["cardname"] >> ELSE << >>)

\* df.groupby(group_keys, dropna=False)[total].sum(): one row per distinct key,
\* the key cells followed by the sum
grouped(cols, cm, rs) ==
  LET gk   == group_keys(cm)
      ti   == ColIndex(cols, cm["total"])
      keys == SortKeys({KeyOf(cols, gk, rs[r]) : r \in DOMAIN rs})
  IN  [g \in DOMAIN keys |-> keys[g] \o << Num(SumGroup(cols, gk, ti, rs, keys[g])) >>]

\* reset_index() inserts every key level as a column and raises ValueError
\* ("cannot insert ..., already exists") when a name is already a column
ResetIndexRaises(cm) ==
  LET names == group_keys(cm) \o << cm["total"] >>
  IN  \E i, j \in DOMAIN names : i < j /\ names[i] = names[j]

KeyCardCode == <<"C","a","r","d","C","o","d","e">>

KeyCardName == <<"C","a","r","d","N","a","m","e">>

KeyTotalAmount == <<"T","o","t","a","l","A","m","o","u","n","t">>

\* a Python dict display: a later pair with the same key replaces the value
DictOf(pairs) ==
  [key \in {pairs[i][1] : i \in DOMAIN pairs} |->
     pairs[Max({i \in DOMAIN pairs : pairs[i][1] = key})][2]]

\* lines 479-483
renames(cm) ==
  DictOf(<< << cm["cardcode"], KeyCardCode >>,
            << (IF "cardname" \in DOMAIN cm THEN cm["cardname"] ELSE cm["cardcode"]),
               KeyCardName >>,
            << cm["total"], KeyTotalAmount >> >>)

\* DataFrame.rename(columns=ren) on the header row
rename(names, ren) ==
  [i \in DOMAIN names |-> IF names[i] \in DOMAIN ren THEN ren[names[i]] ELSE names[i]]

\* DataFrame.to_dict(orient="records"): one dict per row, keyed by column name
to_dict(names, rs) ==
  [r \in DOMAIN rs |->
     [nm \in Range(names) |-> rs[r][Max({i \in DOMAIN names : names[i] = nm})]]]

\* lines 472-484
SupplierTotals(cols, cm, rs) ==
  to_dict(rename(group_keys(cm) \o << cm["total"] >>, renames(cm)),
          grouped(cols, cm, rs))

----------------------------------------------------------------------------
(* analyze_excel: preview, lines 486-488 *)

SampleLimit == 10

PreviewFields == <<"cardcode", "cardname", "docnum", "total", "date">>

\* line 487
preview_cols(cm) ==
  LET present == SelectSeq(PreviewFields, LAMBDA f : f \in DOMAIN cm)
  IN  [i \in DOMAIN present |-> cm[present[i]]]

\* df.head(n)
head(rs, n) == SubSeq(rs, 1, IF Len(rs) < n THEN Len(rs) ELSE n)

\* the preview taken from the whole frame: df.head(10).to_dict(...) without the
\* projection on preview_cols
SampleRecordsAllColumns(cols, cm, rs) ==
  IF preview_cols(cm) = << >> THEN << >>
  ELSE to_dict(cols, head(rs, SampleLimit))

\* line 488
SampleRecords(cols, cm, rs) ==
  LET pcs == preview_cols(cm)
  IN  IF pcs = << >> THEN << >>
      ELSE to_dict(pcs,
             [r \in DOMAIN head(rs, SampleLimit) |->
                [i \in DOMAIN pcs |-> rs[r][ColIndex(cols, pcs[i])]]])

\* line 498: list(colmap.keys()), in insertion order
FieldsDetected(cm) == SelectSeq(FieldOrder, LAMBDA f : f \in DOMAIN cm)

----------------------------------------------------------------------------
(* analyze_excel from the loaded frame to the response, lines 420-502 *)

\* mapping: Dict[str, str] = {}
EmptyMap == [f \in {} |-> None]

\* the locals and the response of analyze_excel once it returns or raises, given
\* the normalised header row, the mapping, and the frame after the first three
\* filters (f3) and after all five (f5)
AnalyzeMapped(rawcols, rs0, sds, eds, cols, cm, f3, f5) ==
  LET agg   == "cardcode" \in DOMAIN cm /\ "total" \in DOMAIN cm /\ Len(f5) > 0
      blank == [columns |-> rawcols, colmap |-> EmptyMap, df |-> rs0,
                total_records |-> Unbound, supplier_totals |-> << >>,
                sample_records |-> << >>, fields_detected |-> << >>,
                response |-> "http500"]
  IN  IF rs0 = << >> \/ rawcols = << >>
        \* df.empty: the early return of lines 420-433
        THEN [blank EXCEPT !.total_records = 0, !.response = "ok"]
      ELSE IF ParseRaises(sds) \/ ParseRaises(eds)
        \* ValueError out of _parse_datesafe, lines 456-457
        THEN [blank EXCEPT !.columns = cols, !.colmap = cm, !.df = f3]
      ELSE IF agg /\ ResetIndexRaises(cm)
        \* ValueError out of reset_index, line 475
        THEN [blank EXCEPT !.columns = cols, !.colmap = cm, !.df = f5,
                           !.total_records = Len(f5)]
      ELSE [columns |-> cols, colmap |-> cm, df |-> f5,
            total_records |-> Len(f5),
            supplier_totals |-> IF agg THEN SupplierTotals(cols, cm, f5) ELSE << >>,
            sample_records |-> SampleRecords(cols, cm, f5),
            fields_detected |-> FieldsDetected(cm),
            response |-> "ok"]

\* lines 436-461 with the mapping at hand
AnalyzeDetected(rawcols, rs0, cc, mn, mx, sds, eds, cols, cm) ==
  AnalyzeMapped(rawcols, rs0, sds, eds, cols, cm,
    FilterBeforeDates(cols, cm, Coerce(cols, cm, rs0), cc, mn, mx),
    ApplyFilters(cols, cm, Coerce(cols, cm, rs0), cc, mn, mx,
                 _parse_datesafe(sds), _parse_datesafe(eds)))

Analyze(rawcols, rs0, cc, mn, mx, sds, eds) ==
  AnalyzeDetected(rawcols, rs0, cc, mn, mx, sds, eds,
    NormalizeHeaders(rawcols), _detect_columns(NormalizeHeaders(rawcols)))

----------------------------------------------------------------------------
(* Sheets and request parameters drawn for the request specification *)

A1 == Str(<<"A","1">>)

LowerA1 == Str(<<"a","1">>)

B2 == Str(<<"B","2">>)

Acme == Str(<<"A","c","m","e">>)

Globex == Str(<<"G","l","o","b","e","x">>)

Unparsable == Str(<<"n","/","a">>)

Text50 == Str(<<"5","0">>)

NoteX == Str(<<"x">>)

\* the sheets a download may decode to: a header row and the rows it may hold
Sheets ==
  { [columns |-> << <<"C","a","r","d","C","o","d","e">>, <<"C","a","r","d","N","a","m","e">>, <<"D","o","c","T","o","t","a","l">> >>,
     master  |-> << << A1, Acme, Num(100) >>,
                    << A1, Acme, Num(50) >>,
                    << B2, Globex, Num(200) >>,
                    << A1, Globex, Unparsable >>,
                    << NaN, NaN, Text50 >> >>],
    [columns |-> << <<"C","a","r","d","C","o","d","e">>, <<" ","D","o","c","T","o","t","a","l"," ">> >>,
     master  |-> << << A1, Num(100) >>,
                    << LowerA1, Num(50) >>,
                    << B2, Num(200) >>,
                    << NaN, NaN >> >>],
    [columns |-> << <<"V","e","n","d","o","r","N","a","m","e">>, <<"A","m","o","u","n","t">> >>,
     master  |-> << << Acme, Num(100) >>,
                    << Globex, Num(50) >>,
                    << NaN, Num(200) >> >>],
    [columns |-> << <<"C","a","r","d","C","o","d","e">>, <<"D","o","c","D","a","t","e">>, <<"D","o","c","T","o","t","a","l">> >>,
     master  |-> << << A1, Date(1), Num(100) >>,
                    << B2, Date(2), Num(50) >>,
                    << A1, Date(3), Num(200) >>,
                    << B2, Unparsable, Num(50) >>,
                    << NaN, NaN, Num(0) >> >>],
    [columns |-> << <<"N","o","t","e","s">>, <<"A","m","o","u","n","t">> >>,
     master  |-> << << NoteX, Num(100) >>,
                    << NaN, NaN >> >>],
    [columns |-> << <<"C","a","r","d","C","o","d","e">>, <<"C","a","r","d","N","a","m","e">> >>,
     master  |-> << << A1, Acme >>,
                    << B2, Globex >> >>],
    [columns |-> << <<"N","o","t","e","s">>, <<"Q","t","y">> >>,
     master  |-> << << NoteX, Num(1) >>,
                    << NaN, Num(2) >> >>] }

\* the rows of m at the positions in I, in sheet order
RECURSIVE Pick(_, _, _)
Pick(m, I, i) ==
  IF i > Len(m) THEN << >>
  ELSE (IF i \in I THEN << m[i] >> ELSE << >>) \o Pick(m, I, i + 1)

\* the row sequences a sheet may hold: at most MaxRows of its rows, in order
RowChoices(m) ==
  {Pick(m, I, 1) : I \in {J \in SUBSET DOMAIN m : Cardinality(J) <= MaxRows}}

CardcodeParams == { None, <<"a","1">>, <<"n","a","n">>, <<".">> }

MinParams == { NoneNum, 0, 150 }

MaxParams == { NoneNum, 0, 100 }

StartParams == { NoDate, BadDate, ValidDate(2) }

EndParams == { NoDate, ValidDate(2) }

----------------------------------------------------------------------------
(* The request: one call of analyze_excel *)

Init ==
  /\ pc = "start"
  /\ cardcode \in CardcodeParams
  /\ min_total \in MinParams
  /\ max_total \in MaxParams
  /\ start_date \in StartParams
  /\ end_date \in EndParams
  /\ columns = << >>
  /\ rows = << >>
  /\ tmp_exists = FALSE
  /\ colmap = EmptyMap
  /\ df = << >>
  /\ total_records = Unbound
  /\ supplier_totals = << >>
  /\ sample_records = << >>
  /\ fields_detected = << >>
  /\ response = "none"

params == << cardcode, min_total, max_total, start_date, end_date >>

locals == << colmap, df, total_records, supplier_totals, sample_records,
             fields_detected >>

\* lines 396-402: the ids pass validation and the bytes are downloaded
FetchContent ==
  /\ pc = "start"
  /\ pc' = "fetched"
  /\ UNCHANGED << params, locals, columns, rows, tmp_exists, response >>

\* lines 396-402: an id is rejected, the site is not allowed or Graph fails
FetchRejected ==
  /\ pc = "start"
  /\ pc' = "end"
  /\ response' = "http_error"
  /\ UNCHANGED << params, locals, columns, rows, tmp_exists >>

\* line 405: NamedTemporaryFile(suffix=".xlsx", delete=False)
CreateTemp ==
  /\ pc = "fetched"
  /\ tmp_exists' = TRUE
  /\ pc' = "tmp_open"
  /\ UNCHANGED << params, locals, columns, rows, response >>

\* lines 406-407: the bytes are written and the file is closed
WriteTemp ==
  /\ pc = "tmp_open"
  /\ pc' = "tmp_written"
  /\ UNCHANGED << params, locals, columns, rows, tmp_exists, response >>

\* line 406: tmp.write raises (disk full, I/O error); the with block closes the
\* file, which delete=False keeps, and the exception leaves analyze_excel before
\* the try of line 409 is entered
WriteTempRaises ==
  /\ pc = "tmp_open"
  /\ pc' = "end"
  /\ response' = "http500"
  /\ UNCHANGED << params, locals, columns, rows, tmp_exists >>

\* lines 409-418: read_excel decodes the file; finally removes it
ReadExcel ==
  /\ pc = "tmp_written"
  /\ \E sh \in Sheets :
       /\ columns' = sh.columns
       /\ \E rs \in RowChoices(sh.master) : rows' = rs /\ df' = rs
  /\ tmp_exists' = FALSE
  /\ pc' = "loaded"
  /\ UNCHANGED << params, colmap, total_records, supplier_totals, sample_records,
                  fields_detected, response >>

\* lines 411-418: read_excel raises; HTTP 400, and finally removes the file
ReadExcelRaises ==
  /\ pc = "tmp_written"
  /\ tmp_exists' = FALSE
  /\ response' = "http400"
  /\ pc' = "end"
  /\ UNCHANGED << params, locals, columns, rows >>

\* lines 420-502
AnalyzeFrame ==
  /\ pc = "loaded"
  /\ \E out \in {Analyze(columns, rows, cardcode, min_total, max_total,
                        start_date, end_date)} :
         /\ columns' = out.columns
         /\ colmap' = out.colmap
         /\ df' = out.df
         /\ total_records' = out.total_records
         /\ supplier_totals' = out.supplier_totals
         /\ sample_records' = out.sample_records
         /\ fields_detected' = out.fields_detected
         /\ response' = out.response
  /\ pc' = "end"
  /\ UNCHANGED << params, rows, tmp_exists >>

Next ==
  \/ FetchContent
  \/ FetchRejected
  \/ CreateTemp
  \/ WriteTemp
  \/ WriteTempRaises
  \/ ReadExcel
  \/ ReadExcelRaises
  \/ AnalyzeFrame

Spec == Init /\ [][Next]_vars

----------------------------------------------------------------------------
(* _detect_columns alone, applied to every header row of the pool *)

InitDetect ==
  /\ pc = "detect"
  /\ columns \in HeaderRows
  /\ cardcode = None
  /\ min_total = NoneNum
  /\ max_total = NoneNum
  /\ start_date = NoDate
  /\ end_date = NoDate
  /\ rows = << >>
  /\ tmp_exists = FALSE
  /\ colmap = EmptyMap
  /\ df = << >>
  /\ total_records = Unbound
  /\ supplier_totals = << >>
  /\ sample_records = << >>
  /\ fields_detected = << >>
  /\ response = "none"

DetectColumns ==
  /\ pc = "detect"
  /\ colmap' = _detect_columns(columns)
  /\ pc' = "detected"
  /\ UNCHANGED << params, columns, rows, tmp_exists, df, total_records,
                  supplier_totals, sample_records, fields_detected, response >>

NextDetect == DetectColumns

SpecDetect == InitDetect /\ [][NextDetect]_vars

----------------------------------------------------------------------------
(* The request on a long sheet: more rows than the preview shows *)

\* row i of a long invoice sheet: partner A1 except for B2 in the second row, a
\* free-text column that no field maps, and the amount 10 * i
LongRow(i) == << (IF i = 2 THEN B2 ELSE A1), NoteX, Num(10 * i) >>

\* row i of a long sheet none of whose headers is a preview field
LongPlainRow(i) == << NoteX, Num(i) >>

LongSheets ==
  { [columns |-> << <<"C","a","r","d","C","o","d","e">>, <<"N","o","t","e","s">>, <<"D","o","c","T","o","t","a","l">> >>,
     rows    |-> [n \in 0..MaxLongRows |-> [i \in 1..n |-> LongRow(i)]]],
    [columns |-> << <<"N","o","t","e","s">>, <<"Q","t","y">> >>,
     rows    |-> [n \in 0..MaxLongRows |-> [i \in 1..n |-> LongPlainRow(i)]]] }

InitLong ==
  /\ pc = "start"
  /\ cardcode \in { None, <<"a","1">> }
  /\ min_total \in { NoneNum, 0, 20 }
  /\ max_total \in { NoneNum, 100 }
  /\ start_date = NoDate
  /\ end_date = NoDate
  /\ columns = << >>
  /\ rows = << >>
  /\ tmp_exists = FALSE
  /\ colmap = EmptyMap
  /\ df = << >>
  /\ total_records = Unbound
  /\ supplier_totals = << >>
  /\ sample_records = << >>
  /\ fields_detected = << >>
  /\ response = "none"

\* lines 409-418 on a long sheet: read_excel decodes the file; finally removes it
ReadLongSheet ==
  /\ pc = "tmp_written"
  /\ \E sh \in LongSheets :
       /\ columns' = sh.columns
       /\ \E n \in 0..MaxLongRows : rows' = sh.rows[n] /\ df' = sh.rows[n]
  /\ tmp_exists' = FALSE
  /\ pc' = "loaded"
  /\ UNCHANGED << params, colmap, total_records, supplier_totals, sample_records,
                  fields_detected, response >>

NextLong ==
  \/ FetchContent
  \/ FetchRejected
  \/ CreateTemp
  \/ WriteTemp
  \/ WriteTempRaises
  \/ ReadLongSheet
  \/ ReadExcelRaises
  \/ AnalyzeFrame

SpecLong == InitLong /\ [][NextLong]_vars

----------------------------------------------------------------------------
(* Claims about _detect_columns, checked under SpecDetect *)

Min(S) == CHOOSE x \in S : \A y \in S : x <= y

\* the normalised header row _detect_columns worked on
Headers == NormalizeHeaders(columns)

\* positions of the headers of hs containing fragment k
HeadersWith(hs, k) == {j \in DOMAIN hs : Contains(hs[j], k)}

\* positions of the fragments in keys contained in at least one header of hs
MatchingFragments(hs, keys) == {i \in DOMAIN keys : HeadersWith(hs, keys[i]) # {}}

\* the header the rule selects once the matching fragments are known
SelectedBy(hs, keys, matching) == hs[Min(HeadersWith(hs, keys[Min(matching)]))]

\* the rule for one field
FieldFollowsRule(hs, cm, f, matching) ==
  IF matching = {}
    THEN f \notin DOMAIN cm
    ELSE f \in DOMAIN cm /\ cm[f] = SelectedBy(hs, Synonyms[f], matching)

DetectRule(hs, cm) ==
  \A f \in SynonymFields :
    FieldFollowsRule(hs, cm, f, MatchingFragments(hs, Synonyms[f]))

\* C1: every field with a synonym list is mapped to the first header, in column
\* order, that contains the earliest fragment of its list found in any header;
\* a field none of whose fragments occurs in a header is absent from the mapping.
\* The rule looks at no other field, so a header may serve several fields.
C1_FirstMatchByFragmentPriority ==
  pc = "detected" => DetectRule(NormalizeHeaders(columns), colmap)

\* C1 witness: one header serves partner_code (through its second fragment) and
\* partner_name, another serves tax and date, and total_amount is absent
C1_Witness ==
  /\ pc = "detected"
  /\ Len(columns) = 3
  /\ {"cardcode", "cardname", "tax", "date"} \subseteq DOMAIN colmap
  /\ colmap["cardcode"] = colmap["cardname"]
  /\ colmap["cardcode"] = Headers[3]
  /\ colmap["cardcode"] # Synonyms["cardcode"][1]
  /\ colmap["tax"] = colmap["date"]
  /\ "total" \notin DOMAIN colmap

\* positions of the headers of hs that are exactly the text k
ExactAt(hs, k) == {j \in DOMAIN hs : hs[j] = k}

ExactHeaderSelected(hs, cm) ==
  \A f \in SynonymFields :
    ExactAt(hs, Synonyms[f][1]) # {} => f \in DOMAIN cm /\ cm[f] = Synonyms[f][1]

\* C2 as stated: a header equal to the first-priority fragment of a field is the
\* header selected for that field, whatever the other headers and their positions.
C2_ExactHeaderSelected ==
  pc = "detected" => ExactHeaderSelected(NormalizeHeaders(columns), colmap)

FirstWithFragment(hs, cm, f, k, first) ==
  /\ f \in DOMAIN cm
  /\ Contains(cm[f], k)
  /\ cm[f] = hs[first]
  /\ (hs[first] = k => cm[f] = k)

FirstHeaderWithFirstFragment(hs, cm) ==
  \A f \in SynonymFields :
    ExactAt(hs, Synonyms[f][1]) # {} =>
      FirstWithFragment(hs, cm, f, Synonyms[f][1], Min(HeadersWith(hs, Synonyms[f][1])))

\* C2 amended: when a header equals the first-priority fragment of a field, the
\* field is mapped to the first header in column order that contains that
\* fragment: the exact header unless an earlier header contains the fragment too,
\* and never a header matched only by a later-priority fragment.
C2_FirstHeaderWithFirstFragment ==
  pc = "detected" => FirstHeaderWithFirstFragment(NormalizeHeaders(columns), colmap)

\* C2 witness: the exact header "cardcode" stands second, after a header that
\* contains it, and after detection partner_code points at the earlier header
C2_Witness ==
  /\ pc = "detected"
  /\ Len(columns) >= 2
  /\ Headers[2] = Synonyms["cardcode"][1]
  /\ Headers[1] # Headers[2]
  /\ "cardcode" \in DOMAIN colmap
  /\ colmap["cardcode"] = Headers[1]

----------------------------------------------------------------------------
(* Claims about analyze_excel, checked under Spec *)

\* the filters of lines 448-461 have all run (analyze_excel reached line 463)
Filtered == pc = "end" /\ total_records # Unbound /\ rows # << >>

\* one aggregate record names a group of the filtered frame under the stable keys
EntryNamesGroup(cols, cm, rs, e) ==
  /\ KeyCardCode \in DOMAIN e
  /\ KeyTotalAmount \in DOMAIN e
  /\ "cardname" \in DOMAIN cm => KeyCardName \in DOMAIN e
  /\ \E r \in DOMAIN rs :
       /\ e[KeyCardCode] = rs[r][ColIndex(cols, cm["cardcode"])]
       /\ "cardname" \in DOMAIN cm =>
            e[KeyCardName] = rs[r][ColIndex(cols, cm["cardname"])]
       /\ e[KeyTotalAmount] =
            Num(SumGroup(cols, group_keys(cm), ColIndex(cols, cm["total"]), rs,
                         KeyOf(cols, group_keys(cm), rs[r])))

\* C3: every entry of supplier_totals carries the partner code of its group under
\* CardCode, the summed amount under TotalAmount, and the partner name under
\* CardName when partner_name is mapped, for every mapping.
C3_StableKeys ==
  \A g \in DOMAIN supplier_totals :
    EntryNamesGroup(columns, colmap, df, supplier_totals[g])

\* "contains the substring case-insensitively", for a cell that is present
PartnerCellMatches(c, sub) ==
  c.k # "nan" /\ Contains(Lower(astype_str(c)), Lower(sub))

PartnerFilterExact(cols, cm, rs, survivors, sub) ==
  survivors =
    SelectSeq(Coerce(cols, cm, rs),
              LAMBDA r : PartnerCellMatches(r[ColIndex(cols, cm["cardcode"])], sub))

\* C4: with a partner-code substring given and partner_code mapped (and no other
\* filter given), exactly the rows survive whose partner-code cell is present and
\* contains the substring, case-insensitively; a missing cell never survives.
C4_PartnerFilter ==
  ( /\ Filtered
    /\ cardcode # None
    /\ "cardcode" \in DOMAIN colmap
    /\ min_total = NoneNum /\ max_total = NoneNum
    /\ start_date = NoDate /\ end_date = NoDate )
  => PartnerFilterExact(columns, colmap, rows, df, cardcode)

\* a coerced amount cell is present and within the bounds that were given
AmountInBounds(c, mn, mx) ==
  /\ c.k = "num"
  /\ mn # NoneNum => mn <= c.n
  /\ mx # NoneNum => c.n <= mx

\* the survivors are the rows that pass the other filters and whose own amount
\* is within the bounds
RowLevelAmountFilter(cols, cm, rs, survivors, cc, mn, mx, sd, ed) ==
  survivors =
    SelectSeq(ApplyFilters(cols, cm, Coerce(cols, cm, rs), cc, NoneNum, NoneNum, sd, ed),
              LAMBDA r : AmountInBounds(r[ColIndex(cols, cm["total"])], mn, mx))

\* the request of the scenario: rows (A1,100), (A1,50), (B2,200), min_total = 150
ScenarioMin150 ==
  /\ rows = << << A1, Acme, Num(100) >>, << A1, Acme, Num(50) >>,
               << B2, Globex, Num(200) >> >>
  /\ cardcode = None
  /\ min_total = 150 /\ max_total = NoneNum
  /\ start_date = NoDate /\ end_date = NoDate

\* C5: with total_amount mapped and a min and/or max bound given (0 included), a
\* row survives the amount filters exactly when its own coerced amount is present
\* and within the bounds; the test is per row, before aggregation: the scenario
\* leaves the B2 row alone, total_records = 1 and one entry with TotalAmount 200.
C5_AmountFilterPerRow ==
  /\ ( /\ Filtered
       /\ "total" \in DOMAIN colmap
       /\ (min_total # NoneNum \/ max_total # NoneNum) )
     => RowLevelAmountFilter(columns, colmap, rows, df, cardcode, min_total,
                             max_total, _parse_datesafe(start_date),
                             _parse_datesafe(end_date))
  /\ (pc = "end" /\ ScenarioMin150)
     => /\ df = << << B2, Globex, Num(200) >> >>
        /\ total_records = 1
        /\ Len(supplier_totals) = 1
        /\ supplier_totals[1][KeyTotalAmount] = Num(200)

\* C5 witness: the scenario has been analysed and answered
C5_Witness == pc = "end" /\ ScenarioMin150 /\ response = "ok"

\* the sum of TotalAmount over the aggregate records
RECURSIVE SumEntries(_)
SumEntries(entries) ==
  IF entries = << >> THEN 0
  ELSE entries[1][KeyTotalAmount].n + SumEntries(Tail(entries))

\* the sum of column i over the rows, a missing cell counting 0
RECURSIVE SumColumn(_, _)
SumColumn(rs, i) ==
  IF rs = << >> THEN 0
  ELSE (IF rs[1][i].k = "num" THEN rs[1][i].n ELSE 0) + SumColumn(Tail(rs), i)

\* aggregation runs: partner_code and total_amount mapped, a row survived
AggregationRuns ==
  /\ pc = "end"
  /\ total_records # Unbound
  /\ "cardcode" \in DOMAIN colmap
  /\ "total" \in DOMAIN colmap
  /\ total_records > 0

\* C6: whenever aggregation runs, the sum of TotalAmount over supplier_totals
\* equals the sum of the total_amount column over the filtered rows, missing
\* cells counting 0.
C6_SumInvariant ==
  AggregationRuns =>
    SumEntries(supplier_totals) = SumColumn(df, ColIndex(columns, colmap["total"]))

\* what the code keeps of C6: the sums agree in every request that is answered
C6_SumInvariantWhenAnswered ==
  (AggregationRuns /\ response = "ok") =>
    SumEntries(supplier_totals) = SumColumn(df, ColIndex(columns, colmap["total"]))

\* the distinct grouping keys of the rows
GroupKeysOf(cols, cm, rs) == {KeyOf(cols, group_keys(cm), rs[r]) : r \in DOMAIN rs}

OneEntryPerKey(cols, cm, rs, entries) ==
  /\ Len(entries) = Cardinality(GroupKeysOf(cols, cm, rs))
  /\ \A g, h \in DOMAIN entries : g # h => entries[g] # entries[h]

\* a sheet was decoded and analyze_excel is over, the date parameters being valid
AnalysedValid ==
  /\ pc = "end"
  /\ columns # << >>
  /\ ~ParseRaises(start_date)
  /\ ~ParseRaises(end_date)

\* C7: supplier_totals holds exactly one entry per distinct grouping key of the
\* filtered rows when partner_code and total_amount are mapped and a row survived;
\* in every other case it is the empty list and no error is raised.
C7_OneEntryPerGroup ==
  AnalysedValid =>
    IF "cardcode" \in DOMAIN colmap /\ "total" \in DOMAIN colmap /\ Len(df) > 0
      THEN response = "ok" /\ OneEntryPerKey(columns, colmap, df, supplier_totals)
      ELSE response = "ok" /\ supplier_totals = << >>

\* what the code keeps of C7: one entry per key in every request that is answered
C7_OneEntryPerGroupWhenAnswered ==
  (AnalysedValid /\ response = "ok") =>
    IF "cardcode" \in DOMAIN colmap /\ "total" \in DOMAIN colmap /\ Len(df) > 0
      THEN OneEntryPerKey(columns, colmap, df, supplier_totals)
      ELSE supplier_totals = << >>

\* the criteria ExcelQuery would reject
InvalidCriteria ==
  \/ validate_dates_raises(start_date)
  \/ validate_dates_raises(end_date)
  \/ check_ranges_raises(max_total, min_total)

\* C8: a request with invalid criteria is rejected before the sheet is loaded,
\* inferred, filtered or aggregated, and no result record is produced for it.
C8_InvalidCriteriaRejected ==
  InvalidCriteria =>
    /\ pc # "loaded"
    /\ columns = << >>
    /\ colmap = EmptyMap
    /\ response # "ok"

\* C9: when the request is over, on every exit path, the temporary file created
\* for it no longer exists.
C9_TempFileRemoved == pc = "end" => ~tmp_exists

\* the number of rows the filters leave for the given criteria
Count(cols, cm, co, cc, mn, mx, sd, ed) ==
  Len(ApplyFilters(cols, cm, co, cc, mn, mx, sd, ed))

\* one criterion more never leaves more rows: the count is at most the count
\* with any one criterion taken away
Monotonic(cols, cm, co, n, cc, mn, mx, sd, ed) ==
  /\ n <= Count(cols, cm, co, None, mn, mx, sd, ed)
  /\ n <= Count(cols, cm, co, cc, NoneNum, mx, sd, ed)
  /\ n <= Count(cols, cm, co, cc, mn, NoneNum, sd, ed)
  /\ n <= Count(cols, cm, co, cc, mn, mx, NoneNum, ed)
  /\ n <= Count(cols, cm, co, cc, mn, mx, sd, NoneNum)

\* the survivors are the rows each filter, applied alone, would keep
Conjunctive(cols, cm, co, survivors, cc, mn, mx, sd, ed) ==
  survivors =
    SelectSeq(co, LAMBDA r :
      /\ r \in Range(FilterCardcode(cols, cm, co, cc))
      /\ r \in Range(FilterMin(cols, cm, co, mn))
      /\ r \in Range(FilterMax(cols, cm, co, mx))
      /\ r \in Range(FilterStart(cols, cm, co, sd))
      /\ r \in Range(FilterEnd(cols, cm, co, ed)))

\* a criterion whose field is not mapped changes nothing
AbsentIgnored(cols, cm, co, n, cc, mn, mx, sd, ed) ==
  /\ "cardcode" \notin DOMAIN cm => n = Count(cols, cm, co, None, mn, mx, sd, ed)
  /\ "total" \notin DOMAIN cm => n = Count(cols, cm, co, cc, NoneNum, NoneNum, sd, ed)
  /\ "date" \notin DOMAIN cm => n = Count(cols, cm, co, cc, mn, mx, NoneNum, NoneNum)

\* a criterion whose field is not mapped raises nothing: the request ends as it
\* does without the criterion
AbsentRaisesNothing ==
  /\ "cardcode" \notin DOMAIN colmap =>
       response = Analyze(columns, rows, None, min_total, max_total,
                          start_date, end_date).response
  /\ "total" \notin DOMAIN colmap =>
       response = Analyze(columns, rows, cardcode, NoneNum, NoneNum,
                          start_date, end_date).response
  /\ "date" \notin DOMAIN colmap =>
       response = Analyze(columns, rows, cardcode, min_total, max_total,
                          NoDate, NoDate).response

FilterLaws(cols, cm, co, survivors, n, cc, mn, mx, sd, ed) ==
  /\ n = Len(survivors)
  /\ Monotonic(cols, cm, co, n, cc, mn, mx, sd, ed)
  /\ Conjunctive(cols, cm, co, survivors, cc, mn, mx, sd, ed)
  /\ AbsentIgnored(cols, cm, co, n, cc, mn, mx, sd, ed)

\* C10: for valid criteria, one more criterion never increases total_records,
\* the survivors are exactly the rows that pass every active filter, and a
\* criterion whose field is not mapped leaves total_records as it is and raises
\* nothing.
C10_FiltersConjunctiveMonotonic ==
  (AnalysedValid /\ total_records # Unbound) =>
    /\ FilterLaws(columns, colmap, Coerce(columns, colmap, rows), df, total_records,
                  cardcode, min_total, max_total,
                  _parse_datesafe(start_date), _parse_datesafe(end_date))
    /\ AbsentRaisesNothing

\* C10 witness: all five criteria are given, every target field is mapped, and
\* the filters left some rows and removed others
C10_Witness ==
  /\ pc = "end"
  /\ response = "ok"
  /\ cardcode # None /\ min_total # NoneNum /\ max_total # NoneNum
  /\ start_date # NoDate /\ end_date # NoDate
  /\ {"cardcode", "total", "date"} \subseteq DOMAIN colmap
  /\ 0 < total_records
  /\ total_records < Len(rows)

----------------------------------------------------------------------------
(* Claim about the preview, checked under SpecLong *)

\* the headers the mapping gives to the five preview fields
PreviewHeaders(cm) ==
  {cm[f] : f \in {"cardcode", "cardname", "docnum", "total", "date"} \cap DOMAIN cm}

\* record i of the preview is row i of the filtered frame, cut down to the
\* headers in hs
ProjectsRow(cols, hs, row, rec) ==
  /\ DOMAIN rec = hs
  /\ \A h \in hs : rec[h] = row[ColIndex(cols, h)]

PreviewOf(cols, hs, rs, sample) ==
  IF hs = {} THEN sample = << >>
  ELSE /\ Len(sample) = (IF Len(rs) < 10 THEN Len(rs) ELSE 10)
       /\ \A i \in DOMAIN sample : ProjectsRow(cols, hs, rs[i], sample[i])

\* no record holds a column outside the headers in hs
OnlyHeaders(hs, sample) == \A i \in DOMAIN sample : DOMAIN sample[i] \subseteq hs

\* C11: sample_records never holds more than 10 records and never a column other
\* than those mapped to partner_code, partner_name, doc_number, total_amount or
\* date; in an answered request its records are the first filtered rows in
\* their original order, cut down to those columns, and it is empty when none of
\* the five fields is mapped.
C11_PreviewBoundedAndProjected ==
  /\ Len(sample_records) <= 10
  /\ OnlyHeaders(PreviewHeaders(colmap), sample_records)
  /\ (pc = "end" /\ response = "ok" /\ rows # << >>)
       => PreviewOf(columns, PreviewHeaders(colmap), df, sample_records)

\* C11 witness: a sheet with a column no field maps was filtered down to more
\* than 10 rows, its second row among those removed, and the preview was built
C11_Witness ==
  /\ pc = "end"
  /\ response = "ok"
  /\ Len(columns) = 3
  /\ Cardinality(PreviewHeaders(colmap)) = 2
  /\ Len(df) > 10
  /\ Len(df) < Len(rows)
  /\ Len(sample_records) = 10
  /\ sample_records[2] # sample_records[1]

====
